---------------------------- MODULE Spec2Model ----------------------------
(***************************************************************************)
(* Model of the suggestion-stream manager, class ChatService, of           *)
(*   src/week10/frontend/src/services/chatService.ts  (frontend)           *)
(*   src/week10/mobile/src/services/api.ts            (mobile)             *)
(*                                                                         *)
(* Both implementations run on a JavaScript event loop.  A call of         *)
(* startSuggestionStream runs synchronously up to the point where it waits *)
(* for the promise of apiService.getSuggestions (`await` in the frontend,  *)
(* `.then` in mobile); the rest runs later as a microtask.  Microtasks run *)
(* in FIFO order and before any macrotask (EventSource message and error   *)
(* events, setTimeout callbacks), but code of the caller that runs in the  *)
(* same task may call the manager again before the microtask runs.         *)
(*                                                                         *)
(* The two differ in one place.  The frontend's catch block runs one       *)
(* microtask after a rejection.  In mobile the rejection first passes      *)
(* through the `.then` (one microtask) and only then reaches the `.catch`  *)
(* callback (a second microtask, queued behind those already waiting).     *)
(*                                                                         *)
(* An EventSource is identified by the number of the startSuggestionStream *)
(* call that created it; the callback passed to that call carries the same *)
(* number.  A closed EventSource dispatches no events (HTML standard).     *)
(***************************************************************************)
EXTENDS Naturals, Sequences, FiniteSets

\* ---------------------------------------------------------------- bounds
MaxStarts == 2          \* number of startSuggestionStream calls explored
TickStep  == 7500       \* largest amount of time (ms) one Tick lets pass
MaxMsgs   == 3          \* messages followed in the ordering specification
MaxUuids  == 6          \* chat store: uuidv4() calls explored
MaxChatUuids == 4       \* ChatInterface: uuidv4() calls before the last createSession
MaxMessages == 1        \* ... messages per session
MaxReplies == 2         \* ... assistant replies that ask for a suggestion stream
DelayStep == 250        \* ... largest amount of time (ms) one ChatTick lets pass

\* ------------------------------------------------------ program constants
Timeout == 15000        \* setTimeout(..., 15000)

ReplyDelay == 500       \* ChatInterface: setTimeout(..., 500)

ThreadIds == {"t1", "t2"}
Calls     == 1 .. MaxStarts
NoStream  == 0          \* this.eventSource = null; Map.get(...) = undefined

(***************************************************************************)
(* Raw payloads of a message event (event.data), by what JSON.parse and    *)
(* the handler's reads of the parsed value do with them:                   *)
(*   "garbage"     not JSON                  JSON.parse throws SyntaxError *)
(*   "noshape"     e.g. {}, 42 or null       parses, no Event fields       *)
(*   "finalOnly"   {"final":true}            parses, no event/suggestions  *)
(*   "event"       {"event":"react","suggestions":[..],"final":false}      *)
(*   "eventFinal"  {"event":"react","suggestions":[..],"final":true}       *)
(* For null the read of data.final throws a TypeError after the callback   *)
(* has run; the handler's catch swallows it, which leaves the same state   *)
(* as a falsy data.final.                                                  *)
(***************************************************************************)
Payloads == {"garbage", "noshape", "finalOnly", "event", "eventFinal"}

\* JSON.parse(event.data) returns normally
JSONParses(p) == p # "garbage"

\* truthiness of data.final
DataFinal(p) == p \in {"finalOnly", "eventFinal"}

\* the payload has the shape of SuggestionEvent (types/api.ts)
IsSuggestionEvent(p) == p \in {"event", "eventFinal"}

Impls == {"frontend", "mobile"}

VARIABLES
    impl,                 \* which of the two implementations runs
    eventSource,          \* this.eventSource: NoStream or the current stream
    suggestionCallbacks,  \* this.suggestionCallbacks: threadId -> callback (0: none)
    sstate,               \* per stream: "none" (not created), "open", "closed"
    sthread,              \* per call: its threadId argument
    handlers,             \* per stream: onmessage/onerror are attached
    pending,              \* FIFO of calls waiting for getSuggestions' promise; `prev`
                          \* is the stream the manager held open when called (`idle`:
                          \* it held none and no call was waiting), `hop` says that a
                          \* rejection has yet to pass mobile's `.then`
    timers,               \* armed setTimeout callbacks, in arming order
    nstarts,              \* number of startSuggestionStream calls made so far
    ended,                \* per call, while its stream is open or its timer armed:
                          \* what ended its session ("final", "error", "stop") and when
    quick,                \* per call: the next call, for another thread, followed at once
    stoppedUpTo,          \* calls made before the last explicit stop returned
    superseded,           \* per call: the call for the same thread that replaced
                          \* its session while it was the active one (0: none)
    last,                 \* the step just taken
    ops,                  \* what the step did, in order: close/open/cb records
    emitted,              \* ordering specification: raw payloads the transport has
                          \* dispatched on the active session's stream, in order
    received,             \* ... and the payloads passed to that session's callback
    fe, mo,               \* side-by-side specification: the state of a frontend and
                          \* of a mobile manager that are given the same inputs
    pairOps,              \* ... and what the last input made each of them do
    pcalls,               \* ... and the number of starts given to them
    sessions,             \* chat store: the sessions, newest first
    currentSession,       \* chat store: the current session or NoSession
    threadId,             \* chat store: the thread id or 0 (null)
    uuids,                \* number of uuidv4() calls made
    suggestionTimeoutRef, \* ChatInterface: handle of the last delayed start (0: null)
    dtimers,              \* per handle: the delayed start, "none" before setTimeout,
                          \* then "armed", and "fired" or "cleared"; `sup` says that a
                          \* later start was scheduled while it was armed
    activeCb,             \* message id held by the callback that the manager's
                          \* stream invokes (0: no stream)
    clast                 \* the chat step just taken

vars == <<impl, eventSource, suggestionCallbacks, sstate, sthread, handlers, pending,
          timers, nstarts, ended, quick, stoppedUpTo, superseded, last, ops,
          emitted, received, fe, mo, pairOps, pcalls,
          sessions, currentSession, threadId, uuids, suggestionTimeoutRef, dtimers,
          activeCb, clast>>

ghost == <<ended, quick, stoppedUpTo, superseded>>

hist == <<emitted, received>>

pair == <<fe, mo, pairOps, pcalls>>

chat == <<sessions, currentSession, threadId, uuids, suggestionTimeoutRef, dtimers,
          activeCb, clast>>

\* the variables of the specifications that do not run the manager of Spec
apart == <<pair, chat>>

CloseOp(s)   == [k |-> "close", s |-> s, p |-> "-"]
\* the request new EventSource(url) issues for stream s; t is the thread in the url
OpenOp(s, t) == [k |-> "open",  s |-> s, p |-> t]
CbOp(c, p)   == [k |-> "cb",    s |-> c, p |-> p]

NoCallbacks == [t \in ThreadIds |-> 0]

\* the fields of a manager and the streams, continuations and timers it made
Manager0 ==
    [es  |-> NoStream,
     cbs |-> NoCallbacks,
     st  |-> [s \in Calls |-> "none"],
     th  |-> [s \in Calls |-> "t1"],
     hd  |-> [s \in Calls |-> FALSE],
     pd  |-> <<>>,
     tm  |-> <<>>]

\* currentSession: null
NoSession == [id |-> 0, messages |-> <<>>]

Handles == 1 .. MaxReplies

\* a delayed start that setTimeout has not made yet
NoTimer == [st |-> "none", rem |-> 0, msg |-> 0, thread |-> 0, sup |-> FALSE]

NoStep == [op |-> "init", id |-> 0, kind |-> "-", has |-> FALSE]

\* `at`: the number of calls made when the session ended
NotEnded == [how |-> "no", at |-> 0]

Init ==
    /\ impl \in Impls
    /\ eventSource = NoStream
    /\ suggestionCallbacks = NoCallbacks
    /\ sstate = [s \in Calls |-> "none"]
    /\ sthread = [s \in Calls |-> "t1"]
    /\ handlers = [s \in Calls |-> FALSE]
    /\ pending = <<>>
    /\ timers = <<>>
    /\ nstarts = 0
    /\ ended = [s \in Calls |-> NotEnded]
    /\ quick = [s \in Calls |-> FALSE]
    /\ stoppedUpTo = 0
    /\ superseded = [s \in Calls |-> 0]
    /\ last = [op |-> "init", s |-> 0, p |-> "-", threw |-> FALSE, at |-> 0]
    /\ ops = <<>>
    /\ emitted = <<>>
    /\ received = <<>>
    /\ fe = Manager0
    /\ mo = Manager0
    /\ pairOps = [fe |-> <<>>, mo |-> <<>>]
    /\ pcalls = 0
    /\ sessions = <<>>
    /\ currentSession = NoSession
    /\ threadId = 0
    /\ uuids = 0
    /\ suggestionTimeoutRef = 0
    /\ dtimers = [h \in Handles |-> NoTimer]
    /\ activeCb = 0
    /\ clast = NoStep


Min(a, b) == IF a < b THEN a ELSE b

Armed(tm, s) == \E i \in 1 .. Len(tm) : tm[i].s = s

\* `ended` is kept for the calls whose stream is open or whose timer is armed
Tracked(e, st, tm) ==
    [m \in Calls |-> IF st[m] = "open" \/ Armed(tm, m) THEN e[m] ELSE NotEnded]

\* call s is marked as ended by `how` unless something ended it before
Mark(e, s, how) ==
    IF e[s] = NotEnded THEN [e EXCEPT ![s] = [how |-> how, at |-> nstarts]] ELSE e

\* ------------------------------------------------- stopSuggestionStream()
\* if (this.eventSource) { this.eventSource.close(); ... }
StopClose(es, st) == IF es # NoStream THEN [st EXCEPT ![es] = "closed"] ELSE st

\* the close() calls stopSuggestionStream makes
StopOps(es) == IF es # NoStream THEN <<CloseOp(es)>> ELSE <<>>

\* a stop that closes the stream and keeps the reference to it
StopEventSource_Kept(es) == es

\* ... this.eventSource = null (it stays null when it was null)
StopEventSource(es) == NoStream

\* a stop that forgets to clear the registry
StopCallbacks_Kept(cbs) == cbs

\* this.suggestionCallbacks.clear()
StopCallbacks(cbs) == NoCallbacks

\* ------------------------------------- startSuggestionStream, synchronous part
\* a start that keeps the callback a thread already has
SetCallback_KeepFirst(cbs, t, c) == IF cbs[t] # 0 THEN cbs ELSE [cbs EXCEPT ![t] = c]

\* this.suggestionCallbacks.set(threadId, callback)
SetCallback(cbs, t, c) == [cbs EXCEPT ![t] = c]

\* a start that forgets to close the stream it holds
StartClose_Missing(es, st) == st

\* if (this.eventSource) { this.eventSource.close(); }   (the field is kept)
StartClose(es, st) == IF es # NoStream THEN [st EXCEPT ![es] = "closed"] ELSE st

StartCloseOps(es) == IF es # NoStream THEN <<CloseOp(es)>> ELSE <<>>

\* apiService.getSuggestions(threadId): new EventSource(url), or a throw
GetSuggestions(st, n, created) == IF created THEN [st EXCEPT ![n] = "open"] ELSE st

GetSuggestionsOps(n, t, created) == IF created THEN <<OpenOp(n, t)>> ELSE <<>>

\* the stream operations of the synchronous part, in program order
StartOps(es, n, t, created) == StartCloseOps(es) \o GetSuggestionsOps(n, t, created)

\* a continuation that leaves the field as it finds it
InstallEventSource_Kept(es, n) == es

\* what the continuation does with the field once the promise is fulfilled
InstallEventSource(es, n) == n

\* setTimeout(() => this.stopSuggestionStream(), 15000); no clearTimeout exists
ArmTimer(tm, n) == Append(tm, [s |-> n, rem |-> Timeout])

IsOpen(s) == s # NoStream /\ sstate[s] = "open"

\* the manager holds an open stream and no start is half done
ManagerOpen == IsOpen(eventSource) /\ pending = <<>>

\* the manager holds no open stream and no start is half done
ManagerIdle == ~IsOpen(eventSource) /\ pending = <<>>

\* mobile: es.then(f).catch(g) runs g two microtasks after a rejection
PassesThen(i, created) == i = "mobile" /\ ~created

\* The manager treats all thread ids alike, so the first call's is fixed.
StartCall(t, created) ==
    /\ nstarts < MaxStarts
    /\ nstarts = 0 => t = "t1"
    /\ LET n == nstarts + 1 IN
        /\ nstarts' = n
        /\ suggestionCallbacks' = SetCallback(suggestionCallbacks, t, n)
        /\ sstate' = GetSuggestions(StartClose(eventSource, sstate), n, created)
        /\ sthread' = [sthread EXCEPT ![n] = t]
        /\ pending' = Append(pending,
                             [call |-> n, created |-> created,
                              hop  |-> PassesThen(impl, created),
                              prev |-> IF ManagerOpen THEN eventSource ELSE NoStream,
                              idle |-> ManagerIdle])
        /\ ops' = StartOps(eventSource, n, t, created)
        /\ last' = [op |-> "start", s |-> n, p |-> "-", threw |-> FALSE, at |-> 0]
        /\ quick' = [m \in Calls |->
                       IF /\ m = nstarts
                          /\ last.op = "start"
                          /\ sstate[m] = "open"
                          /\ sthread[m] # t
                       THEN TRUE ELSE quick[m]]
        /\ superseded' = IF ManagerOpen /\ sthread[eventSource] = t
                         THEN [superseded EXCEPT ![eventSource] = n] ELSE superseded
    /\ ended' = Tracked(ended, sstate', timers)
    /\ UNCHANGED <<impl, eventSource, handlers, timers, stoppedUpTo>>
    /\ UNCHANGED <<hist, apart>>

\* the continuation after `await` / the `.then` callback: promise fulfilled
ResumeInstall ==
    /\ pending # <<>>
    /\ Head(pending).created
    /\ LET n == Head(pending).call IN
        /\ eventSource' = InstallEventSource(eventSource, n)
        /\ handlers' = [handlers EXCEPT ![n] = TRUE]
        /\ timers' = ArmTimer(timers, n)
        /\ last' = [op |-> "install", s |-> n, threw |-> FALSE, at |-> 0,
                    p |-> IF Head(pending).idle THEN "idle" ELSE "-"]
    /\ pending' = Tail(pending)
    /\ ops' = <<>>
    /\ UNCHANGED <<impl, suggestionCallbacks, sstate, sthread, nstarts>>
    /\ UNCHANGED <<ghost, hist, apart>>

\* mobile only: the rejection passes through `.then`, which has no rejection
\* handler; the `.catch` callback is queued behind the waiting microtasks
ResumePass ==
    /\ pending # <<>>
    /\ Head(pending).hop
    /\ pending' = Append(Tail(pending), [Head(pending) EXCEPT !.hop = FALSE])
    /\ last' = [op |-> "pass", s |-> Head(pending).call, p |-> "-", threw |-> FALSE, at |-> 0]
    /\ ops' = <<>>
    /\ UNCHANGED <<impl, eventSource, suggestionCallbacks, sstate, sthread, handlers,
                   timers, nstarts>>
    /\ UNCHANGED <<ghost, hist, apart>>

\* the catch block / the `.catch` callback: promise rejected
ResumeCatch ==
    /\ pending # <<>>
    /\ ~Head(pending).created
    /\ ~Head(pending).hop
    /\ eventSource' = StopEventSource(eventSource)
    /\ sstate' = StopClose(eventSource, sstate)
    /\ suggestionCallbacks' = StopCallbacks(suggestionCallbacks)
    /\ ops' = StopOps(eventSource)
    /\ last' = [op |-> "catch", s |-> Head(pending).call, p |-> "-", threw |-> FALSE, at |-> 0]
    /\ pending' = Tail(pending)
    /\ ended' = Tracked(ended, sstate', timers)
    /\ UNCHANGED <<impl, sthread, handlers, timers, nstarts>>
    /\ UNCHANGED <<quick, superseded, stoppedUpTo, hist, apart>>

\* stopSuggestionStream() called by the user of the manager
Stop ==
    /\ eventSource' = StopEventSource(eventSource)
    /\ sstate' = StopClose(eventSource, sstate)
    /\ suggestionCallbacks' = StopCallbacks(suggestionCallbacks)
    /\ ops' = StopOps(eventSource)
    /\ last' = [op |-> "stop", s |-> 0, p |-> "-", threw |-> FALSE, at |-> 0]
    /\ stoppedUpTo' = nstarts
    /\ ended' = Tracked([m \in Calls |->
                            IF m <= nstarts THEN Mark(ended, m, "stop")[m] ELSE ended[m]],
                         sstate', timers)
    /\ UNCHANGED <<impl, sthread, handlers, pending, timers, nstarts, quick, superseded>>
    /\ UNCHANGED <<hist, apart>>


\* ------------------------------------------------ eventSource.onmessage
\* const callback = this.suggestionCallbacks.get(threadId)
LookupCallback(cbs, t) == cbs[t]

\* a handler that passes every event on twice
CallbackOps_Twice(cb, p) == IF cb # 0 THEN <<CbOp(cb, p), CbOp(cb, p)>> ELSE <<>>

\* if (callback) { callback(data); }
CallbackOps(cb, p) == IF cb # 0 THEN <<CbOp(cb, p)>> ELSE <<>>

\* a handler that stops after every event it has passed on
ReachesStop_Always(p, cb, throws) == JSONParses(p) /\ ~(cb # 0 /\ throws)

\* the handler gets to `if (data.final)` and the test succeeds
ReachesStop(p, cb, throws) ==
    /\ JSONParses(p)
    /\ ~(cb # 0 /\ throws)
    /\ DataFinal(p)

\* a handler that restarts its session's timer on every message
MessageTimers_Reset(tm, s) ==
    [i \in 1 .. Len(tm) |-> IF tm[i].s = s THEN [tm[i] EXCEPT !.rem = Timeout] ELSE tm[i]]

\* the handler has no timer code: the armed timers stay as they are
MessageTimers(tm, s) == tm

\* the message handler of stream s runs on raw payload p; `throws` says
\* whether the registered callback, if one is called, throws
Message(s, p, throws) ==
    /\ pending = <<>>
    /\ sstate[s] = "open"
    /\ handlers[s]
    /\ throws => (JSONParses(p) /\ LookupCallback(suggestionCallbacks, sthread[s]) # 0)
    /\ LET cb   == LookupCallback(suggestionCallbacks, sthread[s])
           stop == ReachesStop(p, cb, throws)
       IN
        /\ ops' = IF JSONParses(p)
                  THEN CallbackOps(cb, p) \o (IF stop THEN StopOps(eventSource) ELSE <<>>)
                  ELSE <<>>
        /\ eventSource' = IF stop THEN StopEventSource(eventSource) ELSE eventSource
        /\ sstate' = IF stop THEN StopClose(eventSource, sstate) ELSE sstate
        /\ suggestionCallbacks' = IF stop THEN StopCallbacks(suggestionCallbacks)
                                  ELSE suggestionCallbacks
        /\ ended' = Tracked(IF stop THEN Mark(ended, s, "final") ELSE ended,
                             sstate', timers)
        /\ last' = [op |-> "message", s |-> s, p |-> p,
                    threw |-> JSONParses(p) /\ cb # 0 /\ throws, at |-> 0]
    /\ timers' = MessageTimers(timers, s)
    /\ UNCHANGED <<impl, sthread, handlers, pending, nstarts>>
    /\ UNCHANGED <<quick, superseded, stoppedUpTo>>

\* -------------------------------------------------- eventSource.onerror
Error(s) ==
    /\ pending = <<>>
    /\ sstate[s] = "open"
    /\ handlers[s]
    /\ eventSource' = StopEventSource(eventSource)
    /\ sstate' = StopClose(eventSource, sstate)
    /\ suggestionCallbacks' = StopCallbacks(suggestionCallbacks)
    /\ ops' = StopOps(eventSource)
    /\ ended' = Tracked(Mark(ended, s, "error"), sstate', timers)
    /\ last' = [op |-> "error", s |-> s, p |-> "-", threw |-> FALSE, at |-> 0]
    /\ UNCHANGED <<impl, sthread, handlers, pending, timers, nstarts>>
    /\ UNCHANGED <<quick, superseded, stoppedUpTo, hist, apart>>

\* ------------------------------------------ the setTimeout callback runs
TimerDue(tm) == tm # <<>> /\ Head(tm).rem = 0

Expire ==
    /\ pending = <<>>
    /\ TimerDue(timers)
    /\ last' = [op |-> "timeout", s |-> Head(timers).s, threw |-> FALSE,
                p |-> ended[Head(timers).s].how, at |-> ended[Head(timers).s].at]
    /\ timers' = Tail(timers)
    /\ eventSource' = StopEventSource(eventSource)
    /\ sstate' = StopClose(eventSource, sstate)
    /\ suggestionCallbacks' = StopCallbacks(suggestionCallbacks)
    /\ ops' = StopOps(eventSource)
    /\ ended' = Tracked(ended, sstate', timers')
    /\ UNCHANGED <<impl, sthread, handlers, pending, nstarts>>
    /\ UNCHANGED <<quick, superseded, stoppedUpTo, hist, apart>>

\* ------------------------------------------------------------ time passes
\* Timers are armed in order with one delay, so the head is the next due.
\* Time does not pass a due timer, and not while a microtask is queued.
Elapse(tm) == Min(TickStep, Head(tm).rem)

Tick ==
    /\ pending = <<>>
    /\ ~TimerDue(timers)
    /\ timers # <<>>
    /\ timers' = [i \in 1 .. Len(timers) |->
                    [timers[i] EXCEPT !.rem = timers[i].rem - Elapse(timers)]]
    /\ last' = [op |-> "tick", s |-> 0, p |-> "-", threw |-> FALSE, at |-> 0]
    /\ ops' = <<>>
    /\ UNCHANGED <<impl, eventSource, suggestionCallbacks, sstate, sthread, handlers,
                   pending, nstarts, ended, quick, superseded, stoppedUpTo, hist, apart>>

Next ==
    \/ \E t \in ThreadIds, created \in BOOLEAN : StartCall(t, created)
    \/ ResumeInstall
    \/ ResumePass
    \/ ResumeCatch
    \/ Stop
    \/ \E s \in Calls, p \in Payloads, throws \in BOOLEAN :
          Message(s, p, throws) /\ UNCHANGED <<hist, apart>>
    \/ \E s \in Calls : Error(s)
    \/ Expire
    \/ Tick

Spec == Init /\ [][Next]_vars

\* ------------------------------------------- one session and its messages
\* the session of call s is the active one: its stream is the current stream
\* and its callback is the one registered for its thread
ActiveSession(s) == eventSource = s /\ suggestionCallbacks[sthread[s]] = s

\* the events the step's operations o passed to callback c, in order
PassedTo(o, c) ==
    LET sel == SelectSeq(o, LAMBDA x : x.k = "cb" /\ x.s = c)
    IN  [i \in 1 .. Len(sel) |-> sel[i].p]

\* the payloads of q that JSON.parse accepts, in order
Decoded(q) == SelectSeq(q, JSONParses)

\* a message on the active session's stream is recorded with what its handler
\* passed to the callback
LogMessage(s, p) ==
    IF ActiveSession(s)
    THEN /\ emitted' = Append(emitted, p)
         /\ received' = received \o PassedTo(ops', s)
    ELSE UNCHANGED hist

\* The manager is used for one session; every message its stream delivers
\* is recorded, up to MaxMsgs of them.
NextOrder ==
    \/ nstarts = 0 /\ \E t \in ThreadIds, created \in BOOLEAN : StartCall(t, created)
    \/ ResumeInstall
    \/ ResumePass
    \/ ResumeCatch
    \/ Stop
    \/ \E s \in Calls, p \in Payloads, throws \in BOOLEAN :
          /\ Len(emitted) < MaxMsgs
          /\ Message(s, p, throws)
          /\ LogMessage(s, p)
          /\ UNCHANGED apart
    \/ \E s \in Calls : Error(s)
    \/ Expire
    \/ Tick

SpecOrder == Init /\ [][NextOrder]_vars

\* --------------------------------- frontend and mobile, side by side
\* A frontend and a mobile manager are given the same inputs: calls of the
\* caller's task (start, stop), the end of the task (the queued microtasks
\* run, in order), and then the notifications of the event loop.  A manager
\* is a record m; the steps below are those of the actions above, on m.
single == <<impl, eventSource, suggestionCallbacks, sstate, sthread, handlers, pending,
            timers, nstarts, ghost, last, ops, hist>>

\* startSuggestionStream(t, cb), synchronous part, as call n of implementation i
MStart(m, i, t, n, created) ==
    [m EXCEPT !.cbs = SetCallback(m.cbs, t, n),
              !.st  = GetSuggestions(StartClose(m.es, m.st), n, created),
              !.th  = [m.th EXCEPT ![n] = t],
              !.pd  = Append(m.pd, [call |-> n, created |-> created,
                                    hop |-> PassesThen(i, created)])]

\* stopSuggestionStream()
MStop(m) ==
    [m EXCEPT !.es  = StopEventSource(m.es),
              !.st  = StopClose(m.es, m.st),
              !.cbs = StopCallbacks(m.cbs)]

\* the first queued microtask runs: install, pass through `.then`, or catch
MResume(m) ==
    LET h == Head(m.pd) IN
    IF h.created
    THEN [m EXCEPT !.es = InstallEventSource(m.es, h.call),
                   !.hd = [m.hd EXCEPT ![h.call] = TRUE],
                   !.tm = ArmTimer(m.tm, h.call),
                   !.pd = Tail(m.pd)]
    ELSE IF h.hop
    THEN [m EXCEPT !.pd = Append(Tail(m.pd), [h EXCEPT !.hop = FALSE])]
    ELSE [MStop(m) EXCEPT !.pd = Tail(m.pd)]

MResumeOps(m) ==
    IF ~Head(m.pd).created /\ ~Head(m.pd).hop THEN StopOps(m.es) ELSE <<>>

RECURSIVE MDrain(_)
\* the task ends: the queued microtasks run until none is left
MDrain(m) == IF m.pd = <<>> THEN m ELSE MDrain(MResume(m))

RECURSIVE MDrainOps(_)
MDrainOps(m) ==
    IF m.pd = <<>> THEN <<>> ELSE MResumeOps(m) \o MDrainOps(MResume(m))

\* stream s of m can notify: it is open, has its handlers, no microtask waits
MCanNotify(m, s) == m.pd = <<>> /\ m.st[s] = "open" /\ m.hd[s]

\* eventSource.onmessage of stream s
MMessage(m, s, p, throws) ==
    IF ReachesStop(p, LookupCallback(m.cbs, m.th[s]), throws)
    THEN [MStop(m) EXCEPT !.tm = MessageTimers(m.tm, s)]
    ELSE [m EXCEPT !.tm = MessageTimers(m.tm, s)]

MMessageOps(m, s, p, throws) ==
    LET cb == LookupCallback(m.cbs, m.th[s]) IN
    IF JSONParses(p)
    THEN CallbackOps(cb, p) \o (IF ReachesStop(p, cb, throws) THEN StopOps(m.es) ELSE <<>>)
    ELSE <<>>

\* the setTimeout callback that is due
MExpire(m) == [MStop(m) EXCEPT !.tm = Tail(m.tm)]

\* time passes
MTick(m) ==
    [m EXCEPT !.tm = [i \in 1 .. Len(m.tm) |->
                        [m.tm[i] EXCEPT !.rem = m.tm[i].rem - Elapse(m.tm)]]]

PairStart(t, created) ==
    /\ pcalls < MaxStarts
    /\ pcalls = 0 => t = "t1"
    /\ pcalls' = pcalls + 1
    /\ fe' = MStart(fe, "frontend", t, pcalls + 1, created)
    /\ mo' = MStart(mo, "mobile", t, pcalls + 1, created)
    /\ pairOps' = [fe |-> StartOps(fe.es, pcalls + 1, t, created),
                   mo |-> StartOps(mo.es, pcalls + 1, t, created)]
    /\ UNCHANGED <<single, chat>>

PairStop ==
    /\ fe' = MStop(fe)
    /\ mo' = MStop(mo)
    /\ pairOps' = [fe |-> StopOps(fe.es), mo |-> StopOps(mo.es)]
    /\ UNCHANGED <<pcalls, single, chat>>

PairDrain ==
    /\ fe.pd # <<>> \/ mo.pd # <<>>
    /\ fe' = MDrain(fe)
    /\ mo' = MDrain(mo)
    /\ pairOps' = [fe |-> MDrainOps(fe), mo |-> MDrainOps(mo)]
    /\ UNCHANGED <<pcalls, single, chat>>

PairMessage(s, p, throws) ==
    /\ MCanNotify(fe, s) /\ MCanNotify(mo, s)
    /\ throws => (JSONParses(p) /\ LookupCallback(fe.cbs, fe.th[s]) # 0)
    /\ fe' = MMessage(fe, s, p, throws)
    /\ mo' = MMessage(mo, s, p, throws)
    /\ pairOps' = [fe |-> MMessageOps(fe, s, p, throws),
                   mo |-> MMessageOps(mo, s, p, throws)]
    /\ UNCHANGED <<pcalls, single, chat>>

PairError(s) ==
    /\ MCanNotify(fe, s) /\ MCanNotify(mo, s)
    /\ fe' = MStop(fe)
    /\ mo' = MStop(mo)
    /\ pairOps' = [fe |-> StopOps(fe.es), mo |-> StopOps(mo.es)]
    /\ UNCHANGED <<pcalls, single, chat>>

PairExpire ==
    /\ fe.pd = <<>> /\ mo.pd = <<>>
    /\ TimerDue(fe.tm) /\ TimerDue(mo.tm)
    /\ fe' = MExpire(fe)
    /\ mo' = MExpire(mo)
    /\ pairOps' = [fe |-> StopOps(fe.es), mo |-> StopOps(mo.es)]
    /\ UNCHANGED <<pcalls, single, chat>>

PairTick ==
    /\ fe.pd = <<>> /\ mo.pd = <<>>
    /\ fe.tm # <<>> /\ mo.tm # <<>>
    /\ ~TimerDue(fe.tm) /\ ~TimerDue(mo.tm)
    /\ fe' = MTick(fe)
    /\ mo' = MTick(mo)
    /\ pairOps' = [fe |-> <<>>, mo |-> <<>>]
    /\ UNCHANGED <<pcalls, single, chat>>

NextPair ==
    \/ \E t \in ThreadIds, created \in BOOLEAN : PairStart(t, created)
    \/ PairStop
    \/ PairDrain
    \/ \E s \in Calls, p \in Payloads, throws \in BOOLEAN : PairMessage(s, p, throws)
    \/ \E s \in Calls : PairError(s)
    \/ PairExpire
    \/ PairTick

SpecPair == Init /\ [][NextPair]_vars

\* ------------------------------------------ chat store and ChatInterface
\* Message ids are Date.now() strings and can repeat; session and thread ids
\* are uuidv4() values, modelled as the number of the call that made them.
MsgIds == {1, 2}

\* values of a message's `suggestions`; 0: the field is absent
Sugs == {1}

\* data.event of a suggestion event; "none": the field is absent
Kinds == {"react_start", "react", "error", "suggest", "none"}

\* the store's state, as get() returns it
Store == [currentSession |-> currentSession, sessions |-> sessions, threadId |-> threadId]

\* sessions.map(session => session.id === id ? updated : session)
MapSessions(ss, id, updated) ==
    [i \in 1 .. Len(ss) |-> IF ss[i].id = id THEN updated ELSE ss[i]]

\* an addMessage that forgets the list of sessions
addMessage_CurrentOnly(st, m) ==
    IF st.currentSession = NoSession THEN st
    ELSE [st EXCEPT !.currentSession.messages = Append(st.currentSession.messages, m)]

addMessage(st, m) ==
    IF st.currentSession = NoSession THEN st
    ELSE LET updatedSession ==
                [st.currentSession EXCEPT !.messages = Append(st.currentSession.messages, m)]
         IN  [st EXCEPT !.currentSession = updatedSession,
                        !.sessions = MapSessions(st.sessions, st.currentSession.id,
                                                 updatedSession)]

\* currentSession.messages.map(msg => msg.id === messageId ? {...msg, ...updates} : msg)
UpdatedMessages(msgs, messageId, v) ==
    [i \in 1 .. Len(msgs) |->
        IF msgs[i].id = messageId THEN [msgs[i] EXCEPT !.sug = v] ELSE msgs[i]]

\* an updateMessage that looks for the message in every session
updateMessage_Everywhere(st, messageId, v) ==
    IF st.currentSession = NoSession THEN st
    ELSE [st EXCEPT !.currentSession.messages =
                        UpdatedMessages(st.currentSession.messages, messageId, v),
                    !.sessions =
                        [i \in 1 .. Len(st.sessions) |->
                            [st.sessions[i] EXCEPT !.messages =
                                UpdatedMessages(st.sessions[i].messages, messageId, v)]]]

updateMessage(st, messageId, v) ==
    IF st.currentSession = NoSession THEN st
    ELSE LET updatedSession ==
                [st.currentSession EXCEPT !.messages =
                    UpdatedMessages(st.currentSession.messages, messageId, v)]
         IN  [st EXCEPT !.currentSession = updatedSession,
                        !.sessions = MapSessions(st.sessions, st.currentSession.id,
                                                 updatedSession)]

\* createSession(): the new session has id `id`, the new thread id is `tid`
createSession(st, id, tid) ==
    LET newSession == [id |-> id, messages |-> <<>>]
    IN  [currentSession |-> newSession,
         sessions       |-> <<newSession>> \o st.sessions,
         threadId       |-> tid]

\* sessions.filter(session => session.id !== sessionId)
FilterSessions(ss, sessionId) == SelectSeq(ss, LAMBDA x : x.id # sessionId)

\* updatedSessions[0] || null
FirstOrNull(ss) == IF ss # <<>> THEN ss[1] ELSE NoSession

\* a deleteSession that leaves currentSession as it is
deleteSession_KeepCurrent(st, i, sessionId, fresh) ==
    [st EXCEPT !.sessions = FilterSessions(st.sessions, sessionId)]

\* deleteSession(sessionId) of implementation i; `fresh` is what uuidv4()
\* returns if it is called (frontend, no session left)
deleteSession(st, i, sessionId, fresh) ==
    LET updatedSessions == FilterSessions(st.sessions, sessionId) IN
    IF st.currentSession.id = sessionId
    THEN [currentSession |-> FirstOrNull(updatedSessions),
          sessions       |-> updatedSessions,
          threadId       |-> IF i = "frontend" /\ updatedSessions = <<>>
                             THEN fresh ELSE st.threadId]
    ELSE [st EXCEPT !.sessions = updatedSessions]

\* uuidv4() calls deleteSession makes
DeleteUuids(st, i, sessionId) ==
    IF /\ i = "frontend"
       /\ st.currentSession.id = sessionId
       /\ FilterSessions(st.sessions, sessionId) = <<>>
    THEN 1 ELSE 0

\* clearCurrentSession() of implementation i: the web store creates a
\* session, the mobile store forgets the current session and the thread
clearCurrentSession(st, i, id, tid) ==
    IF i = "frontend"
    THEN createSession(st, id, tid)
    ELSE [st EXCEPT !.currentSession = NoSession, !.threadId = 0]

\* set(...)
SetStore(st) ==
    /\ currentSession' = st.currentSession
    /\ sessions' = st.sessions
    /\ threadId' = st.threadId

chatUI == <<suggestionTimeoutRef, dtimers, activeCb>>

CreateSession ==
    /\ uuids + 2 <= MaxUuids
    /\ SetStore(createSession(Store, uuids + 1, uuids + 2))
    /\ uuids' = uuids + 2
    /\ clast' = [NoStep EXCEPT !.op = "create", !.id = uuids + 1]
    /\ UNCHANGED <<chatUI, single, pair>>

AddMessage(id) ==
    /\ Len(currentSession.messages) < MaxMessages
    /\ SetStore(addMessage(Store, [id |-> id, sug |-> 0]))
    /\ clast' = [NoStep EXCEPT !.op = "add", !.id = id]
    /\ UNCHANGED <<uuids, chatUI, single, pair>>

UpdateMessage(id, v) ==
    /\ SetStore(updateMessage(Store, id, v))
    /\ clast' = [NoStep EXCEPT !.op = "update", !.id = id]
    /\ UNCHANGED <<uuids, chatUI, single, pair>>

DeleteSession(sessionId) ==
    /\ uuids + DeleteUuids(Store, impl, sessionId) <= MaxUuids
    /\ SetStore(deleteSession(Store, impl, sessionId, uuids + 1))
    /\ uuids' = uuids + DeleteUuids(Store, impl, sessionId)
    /\ clast' = [NoStep EXCEPT !.op = "delete", !.id = sessionId,
                               !.has = (currentSession.id = sessionId)]
    /\ UNCHANGED <<chatUI, single, pair>>

ClearCurrentSession ==
    /\ impl = "frontend" => uuids + 2 <= MaxUuids
    /\ SetStore(clearCurrentSession(Store, impl, uuids + 1, uuids + 2))
    /\ uuids' = IF impl = "frontend" THEN uuids + 2 ELSE uuids
    /\ clast' = [NoStep EXCEPT !.op = "clear"]
    /\ UNCHANGED <<chatUI, single, pair>>

\* ChatInterface.startSuggestionStream(threadId, messageId)
\* a start scheduled while an earlier one is armed is noted on the earlier one
MarkSuperseded(dt) ==
    [h \in Handles |-> IF dt[h].st = "armed" THEN [dt[h] EXCEPT !.sup = TRUE] ELSE dt[h]]

\* a scheduling that does not clear the timeout it holds
ClearTimeout_Missing(dt, ref) == dt

\* if (suggestionTimeoutRef.current) clearTimeout(suggestionTimeoutRef.current)
ClearTimeout(dt, ref) ==
    IF ref # 0 /\ dt[ref].st = "armed"
    THEN [dt EXCEPT ![ref] = [NoTimer EXCEPT !.st = "cleared"]]
    ELSE dt

\* the handle setTimeout returns
NextHandle(dt) == 1 + Cardinality({h \in Handles : dt[h].st # "none"})

\* setTimeout(() => chatService.startSuggestionStream(threadId, cb), 500)
SetTimeout(dt, h, thread, msg) ==
    [dt EXCEPT ![h] = [st |-> "armed", rem |-> ReplyDelay, msg |-> msg,
                       thread |-> thread, sup |-> FALSE]]

ArmedHandles(dt) == {h \in Handles : dt[h].st = "armed"}

\* handleSendMessage, after the reply has come: the assistant message is
\* added; its suggestions are written at once (direct) or a stream is asked for
ReplyArrives(id, direct, v) ==
    /\ impl = "frontend"
    /\ threadId # 0
    /\ Len(currentSession.messages) < MaxMessages
    /\ ~direct => (v = 1 /\ NextHandle(dtimers) <= MaxReplies)
    /\ SetStore(IF direct
                THEN updateMessage(addMessage(Store, [id |-> id, sug |-> 0]), id, v)
                ELSE addMessage(Store, [id |-> id, sug |-> 0]))
    /\ dtimers' = IF direct THEN dtimers
                  ELSE SetTimeout(ClearTimeout(MarkSuperseded(dtimers), suggestionTimeoutRef),
                                  NextHandle(dtimers), threadId, id)
    /\ suggestionTimeoutRef' = IF direct THEN suggestionTimeoutRef ELSE NextHandle(dtimers)
    /\ clast' = [NoStep EXCEPT !.op = "reply", !.id = id, !.has = direct]
    /\ UNCHANGED <<uuids, activeCb, single, pair>>

\* the delayed callback runs: chatService.startSuggestionStream(threadId, cb),
\* which replaces whatever stream the manager had
DelayedStart(h) ==
    /\ dtimers[h].st = "armed"
    /\ dtimers[h].rem = 0
    /\ dtimers' = [dtimers EXCEPT ![h] = [NoTimer EXCEPT !.st = "fired",
                                                         !.sup = dtimers[h].sup]]
    /\ activeCb' = dtimers[h].msg
    /\ clast' = [NoStep EXCEPT !.op = "start", !.id = dtimers[h].msg]
    /\ UNCHANGED <<sessions, currentSession, threadId, uuids, suggestionTimeoutRef,
                   single, pair>>

\* the time to the next delayed start that is due
NextDue(dt) ==
    CHOOSE r \in {dt[h].rem : h \in ArmedHandles(dt)} :
        \A h \in ArmedHandles(dt) : r <= dt[h].rem

ChatTick ==
    /\ ArmedHandles(dtimers) # {}
    /\ NextDue(dtimers) > 0
    /\ dtimers' = [h \in Handles |->
                     IF dtimers[h].st = "armed"
                     THEN [dtimers[h] EXCEPT
                             !.rem = dtimers[h].rem - Min(DelayStep, NextDue(dtimers))]
                     ELSE dtimers[h]]
    /\ clast' = [NoStep EXCEPT !.op = "tick"]
    /\ UNCHANGED <<sessions, currentSession, threadId, uuids, suggestionTimeoutRef,
                   activeCb, single, pair>>

\* a callback that takes the suggestions of every kind of event
Accepts_AnyKind(kind, has) == has

\* event.event === 'react' && event.suggestions
Accepts(kind, has) == kind = "react" /\ has

\* the manager passes an event to the registered callback; a final event ends
\* the stream
SuggestionEvent(kind, has, v, final) ==
    /\ impl = "frontend"
    /\ activeCb # 0
    /\ ~has => v = 1
    /\ SetStore(IF Accepts(kind, has) THEN updateMessage(Store, activeCb, v) ELSE Store)
    /\ activeCb' = IF final THEN 0 ELSE activeCb
    /\ clast' = [NoStep EXCEPT !.op = "event", !.kind = kind, !.has = has]
    /\ UNCHANGED <<uuids, suggestionTimeoutRef, dtimers, single, pair>>

\* the stream ends without a final event: error, expiry
StreamEnds ==
    /\ activeCb # 0
    /\ activeCb' = 0
    /\ clast' = [NoStep EXCEPT !.op = "end"]
    /\ UNCHANGED <<sessions, currentSession, threadId, uuids, suggestionTimeoutRef,
                   dtimers, single, pair>>

\* the store, used through its actions
NextStore ==
    \/ CreateSession
    \/ \E id \in MsgIds : AddMessage(id)
    \/ \E id \in MsgIds, v \in Sugs : UpdateMessage(id, v)
    \/ \E sessionId \in 1 .. MaxUuids : DeleteSession(sessionId)
    \/ ClearCurrentSession

SpecStore == Init /\ [][NextStore]_vars

\* ChatInterface: replies, delayed starts and suggestion events, while the
\* user creates and deletes sessions
NextChat ==
    \/ (uuids + 2 <= MaxChatUuids /\ CreateSession)
    \/ \E sessionId \in 1 .. MaxUuids : DeleteSession(sessionId)
    \/ \E id \in MsgIds, direct \in BOOLEAN, v \in Sugs : ReplyArrives(id, direct, v)
    \/ \E h \in Handles : DelayedStart(h)
    \/ ChatTick
    \/ \E kind \in Kinds, has \in BOOLEAN, v \in Sugs, final \in BOOLEAN :
          SuggestionEvent(kind, has, v, final)
    \/ StreamEnds

SpecChat == Init /\ [][NextChat]_vars

\* Queued microtasks run, due timers fire and time passes.
FairSpec ==
    /\ Spec
    /\ WF_vars(ResumeInstall)
    /\ WF_vars(ResumePass)
    /\ WF_vars(ResumeCatch)
    /\ WF_vars(Expire)
    /\ WF_vars(Tick)

TypeOK ==
    /\ impl \in Impls
    /\ eventSource \in 0 .. MaxStarts
    /\ suggestionCallbacks \in [ThreadIds -> 0 .. MaxStarts]
    /\ sstate \in [Calls -> {"none", "open", "closed"}]
    /\ nstarts \in 0 .. MaxStarts


\* ======================================================================
\* Properties
\* ======================================================================

OpenStreams == {s \in Calls : sstate[s] = "open"}

CallbackOpsOf(o) == {i \in DOMAIN o : o[i].k = "cb"}

\* C1: at any time at most one stream opened by the manager is still open.
\* Two calls of startSuggestionStream in one task break it: the second call
\* finds this.eventSource still null and closes nothing.
C1_AtMostOneOpenStream == Cardinality(OpenStreams) <= 1

\* C2: when startStream(t1, cb1) is followed at once by startStream(t2, cb2),
\* t1 # t2, no later message of t1's subscription invokes cb1, and cb2 is
\* invoked only by messages of t2's subscription.
C2_SupersededCallbackSilent ==
    \A m \in Calls :
        (quick[m] /\ last.op = "message") =>
            \A i \in CallbackOpsOf(ops) :
                /\ ops[i].s # m
                /\ ops[i].s = m + 1 => last.s = m + 1

\* C3: once stop() has returned, no callback passed to an earlier
\* startSuggestionStream is invoked again.
C3_NoCallbackAfterStop ==
    \A i \in CallbackOpsOf(ops) : ops[i].s > stoppedUpTo

\* C3 witness: after a stop, an event arrives on the stream of a call made
\* before the stop (its creation was still pending) and reaches no callback
C3_Witness ==
    /\ last.op = "message"
    /\ last.s <= stoppedUpTo
    /\ IsSuggestionEvent(last.p)
    /\ CallbackOpsOf(ops) = {}


\* C4: every stream the manager opens is eventually closed by the manager
\* (checked under FairSpec: microtasks run, time passes, due timers fire).
C4_EveryStreamEventuallyClosed ==
    \A s \in Calls : (sstate[s] = "open") ~> (sstate[s] = "closed")

CloseOpsOf(o, s) == {i \in DOMAIN o : o[i].k = "close" /\ o[i].s = s}

\* C5: a startSuggestionStream called while the manager is OPEN closes the
\* stream it holds exactly once, before it opens the new one, and the old
\* stream is closed for as long as the call waits for its new stream.
C5_CloseBeforeOpen ==
    /\ \A i \in DOMAIN pending :
          pending[i].prev # NoStream => sstate[pending[i].prev] = "closed"
    /\ (last.op = "start" /\ pending[Len(pending)].prev # NoStream) =>
          /\ Cardinality(CloseOpsOf(ops, pending[Len(pending)].prev)) = 1
          /\ ops[1] = CloseOp(pending[Len(pending)].prev)
          /\ \A i \in DOMAIN ops : i > 1 => ops[i] = OpenOp(last.s, sthread[last.s])
          /\ Len(ops) <= 2

\* C5 witness: a start made while OPEN has opened its new stream
C5_Witness ==
    /\ last.op = "start"
    /\ pending[Len(pending)].prev # NoStream
    /\ sstate[last.s] = "open"
    /\ ops = <<CloseOp(pending[Len(pending)].prev), OpenOp(last.s, sthread[last.s])>>


\* C6: a decoded final event invokes the session's callback exactly once, then
\* the manager is IDLE with that stream closed and the registry empty; and a
\* later message on that stream invokes no callback.
C6_FinalEventTearsDown ==
    [][ /\ ( /\ last'.op = "message"
             /\ IsSuggestionEvent(last'.p) /\ DataFinal(last'.p)
             /\ ~last'.threw
             /\ suggestionCallbacks[sthread[last'.s]] = last'.s )
           => /\ Len(ops') >= 1
              /\ ops'[1] = CbOp(last'.s, last'.p)
              /\ Cardinality(CallbackOpsOf(ops')) = 1
              /\ eventSource' = NoStream
              /\ sstate'[last'.s] = "closed"
              /\ suggestionCallbacks' = NoCallbacks
        /\ (last'.op = "message" /\ ended[last'.s].how = "final")
           => CallbackOpsOf(ops') = {}
      ]_vars

\* C7: at most one expiry timer is armed, none while the manager is IDLE, and
\* no timer fires for a session that was torn down before.
C7_TimerCanceledOnTeardown ==
    /\ Len(timers) <= 1
    /\ ManagerIdle => timers = <<>>
    /\ last.op = "timeout" => last.p = "no"

\* C8: the timer of a session that a final event, stop() or a transport error
\* ended closes no session started after that end.
C8_EndedSessionTimerHarmless ==
    ( /\ last.op = "timeout"
      /\ last.p \in {"final", "stop", "error"}
      /\ sstate[last.s] = "closed" ) =>
        \A i \in DOMAIN ops : ops[i].k = "close" => ops[i].s <= last.at

\* C9: a session that no final event, transport error or stop() ended is over
\* when its 15 seconds are: its stream is closed, the manager holds no stream
\* and no callback, and the expiry invokes no callback; until then its timer
\* is armed.
C9_ForcedIdleAtDeadline ==
    /\ (last.op = "timeout" /\ last.p = "no") =>
          /\ sstate[last.s] # "open"
          /\ eventSource = NoStream
          /\ suggestionCallbacks = NoCallbacks
          /\ CallbackOpsOf(ops) = {}
    /\ \A s \in Calls :
          (sstate[s] = "open" /\ handlers[s] /\ ended[s] = NotEnded) => Armed(timers, s)

\* C10: a message whose payload is not a valid Event invokes no callback and
\* changes neither the stream, the registry nor the timer.
C10_MalformedDropped ==
    [][ (last'.op = "message" /\ ~IsSuggestionEvent(last'.p))
           => /\ ops' = <<>>
              /\ UNCHANGED <<eventSource, suggestionCallbacks, sstate, timers>>
      ]_vars


Registered(cbs) == {t \in ThreadIds : cbs[t] # 0}

\* C11: a start clears the entries of earlier sessions: the registry holds at
\* most one entry, and an entry is the callback of the latest start.
C11_RegistryHoldsActiveOnly ==
    /\ Cardinality(Registered(suggestionCallbacks)) <= 1
    /\ \A t \in Registered(suggestionCallbacks) : suggestionCallbacks[t] = nstarts

\* C12: startStream(t, cb) called while the manager is IDLE, with the stream
\* created, issues exactly one subscription-open request, addressed to t, and
\* registers cb under t; when its continuation runs (no other call of the
\* manager having been made in between) the manager is OPEN with that stream
\* as its current stream and cb still registered under t.
C12_StartFromIdle ==
    /\ (/\ last.op = "start"
        /\ pending[Len(pending)].idle
        /\ pending[Len(pending)].created) =>
          /\ ops = <<OpenOp(last.s, sthread[last.s])>>
          /\ sstate[last.s] = "open"
          /\ suggestionCallbacks[sthread[last.s]] = last.s
    /\ (/\ last.op = "install"
        /\ last.p = "idle"
        /\ nstarts = last.s
        /\ stoppedUpTo < last.s) =>
          /\ eventSource = last.s
          /\ IsOpen(eventSource)
          /\ pending = <<>>
          /\ suggestionCallbacks[sthread[last.s]] = last.s

\* a second session started from IDLE has become the current one
C12_Witness ==
    /\ last.op = "install"
    /\ last.p = "idle"
    /\ last.s = nstarts
    /\ nstarts > 1
    /\ stoppedUpTo < last.s
    /\ eventSource = last.s

\* the fields stopSuggestionStream and the handlers work on
managerState == <<eventSource, suggestionCallbacks, sstate, handlers, pending, timers>>

\* C13: stop() called while the manager is IDLE changes no state (stream
\* handle, registry, timer) and closes nothing; and a stop() that follows a
\* stop() leaves the state the first one left.
C13_StopWhenIdleIsNoOp ==
    [][(last'.op = "stop" /\ (ManagerIdle \/ last.op = "stop")) =>
          (UNCHANGED managerState /\ ops' = <<>>)]_vars

\* stop() has run while the manager was IDLE after a session, a timer of
\* which is still armed
C13_Witness ==
    /\ last.op = "stop"
    /\ ops = <<>>
    /\ pending = <<>>
    /\ nstarts > 0
    /\ timers # <<>>

\* C14: a transport error notified on an open stream of the manager does
\* what stop() does: that stream is closed, the handle cleared, the registry
\* emptied, the manager IDLE; no callback is invoked and no timer touched.
\* An error on a stream leaked by overlapping starts closes the other stream.
C14_ErrorTearsDown ==
    [][(last'.op = "error") =>
          /\ sstate'[last'.s] = "closed"
          /\ ops' = <<CloseOp(last'.s)>>
          /\ eventSource' = NoStream
          /\ suggestionCallbacks' = NoCallbacks
          /\ ~IsOpen(eventSource)' /\ pending' = <<>>
          /\ UNCHANGED <<timers, handlers>>]_vars


\* C15: when stream creation fails inside startStream, the callback passed to
\* that call is never invoked, and once the call's catch block has run (no
\* later start having been made) the manager is IDLE with no open stream, an
\* empty registry and no armed timer.  The timer of an earlier session that
\* the failed start replaced is still armed.
C15_FailedStartEndsIdle ==
    /\ \A i \in CallbackOpsOf(ops) : sstate[ops[i].s] # "none"
    /\ (last.op = "catch" /\ nstarts = last.s) =>
          /\ ManagerIdle
          /\ eventSource = NoStream
          /\ OpenStreams = {}
          /\ suggestionCallbacks = NoCallbacks
          /\ timers = <<>>


\* C16: startStream runs without suspension: from the step that registers the
\* callback and closes the old stream until the new stream is installed, no
\* other operation or notification of the manager runs; only continuations
\* of startStream do.  The code suspends at `await` (frontend) and at `.then`
\* (mobile), and the caller can call stop() or startStream in between.
C16_StartNotSuspended ==
    [][(\E i \in 1 .. Len(pending) : pending[i].created) =>
          last'.op \in {"install", "pass", "catch"}]_vars


C18_NonFinalEventFrame ==
    [][(/\ last'.op = "message"
        /\ IsSuggestionEvent(last'.p) /\ ~DataFinal(last'.p)
        /\ suggestionCallbacks[sthread[last'.s]] = last'.s) =>
          /\ ops' = <<CbOp(last'.s, last'.p)>>
          /\ UNCHANGED managerState
          /\ sstate'[last'.s] = "open"]_vars

\* the current session's callback has received a non-final event
C18_Witness ==
    /\ last.op = "message"
    /\ last.p = "event"
    /\ ops = <<CbOp(last.s, "event")>>
    /\ eventSource = last.s
    /\ IsOpen(eventSource)
    /\ Armed(timers, last.s)


\* C19: the expiry is counted from session start and is not reset by
\* activity: the timer is armed with the full delay when the session is
\* installed, a message (of any kind, in any number) leaves every armed timer
\* as it is, only the passing of time brings a timer nearer, and the timer
\* that comes due tears the manager down.
C19_DeadlineFixedAtStart ==
    [][ /\ last'.op = "install" =>
              timers' = Append(timers, [s |-> last'.s, rem |-> Timeout])
        /\ last'.op = "message" => timers' = timers
        /\ last'.op \notin {"install", "tick", "timeout"} => timers' = timers
        /\ last'.op = "timeout" =>
              /\ Head(timers).s = last'.s /\ Head(timers).rem = 0
              /\ timers' = Tail(timers)
              /\ eventSource' = NoStream
              /\ suggestionCallbacks' = NoCallbacks
      ]_vars

\* the current session has received a message part of the way to its deadline
C19_Witness ==
    /\ last.op = "message"
    /\ eventSource = last.s
    /\ IsOpen(eventSource)
    /\ \E i \in 1 .. Len(timers) :
          timers[i].s = last.s /\ 0 < timers[i].rem /\ timers[i].rem < Timeout


\* C20: within one active session the events passed to the callback are the
\* messages of the transport that decode, in the order of their dispatch, each
\* once: nothing is duplicated, reordered, merged or left out.
C20_CallbackSequenceIsDecodedSequence == received = Decoded(emitted)

\* two different events were passed on in order and a message that does not
\* decode was skipped
C20_Witness ==
    /\ Len(received) >= 2
    /\ received[1] # received[2]
    /\ Len(emitted) > Len(received)


\* C21: from any state, stop() leaves the manager with no stream handle, the
\* stream it held closed, no armed expiry timer and an empty registry.  The
\* timer the session armed stays armed: stop() has no handle to cancel it.
C21_StopPostcondition ==
    last.op = "stop" =>
        /\ eventSource = NoStream
        /\ \A i \in DOMAIN ops : ops[i].k = "close" /\ sstate[ops[i].s] = "closed"
        /\ suggestionCallbacks = NoCallbacks
        /\ timers = <<>>


\* C22: a stop() that runs while a startStream call waits for its stream
\* cancels that start: when the continuation of the call runs, its stream is
\* neither installed as the current stream nor left open, and the manager is
\* IDLE.  The continuation knows nothing of the stop and installs the stream.
C22_StopCancelsPendingStart ==
    (last.op = "install" /\ stoppedUpTo >= last.s) =>
        /\ eventSource # last.s
        /\ sstate[last.s] # "open"
        /\ pending = <<>> => ManagerIdle


\* C23: a final event or an error notified by a stream that is not the
\* manager's current stream never tears the current session down: the current
\* stream stays the current one and open, and its registry entry stays.  The
\* handlers stop whatever is current, not the stream they are attached to.
C23_StaleNotificationHarmless ==
    [][(/\ \/ last'.op = "error"
           \/ last'.op = "message" /\ DataFinal(last'.p)
        /\ IsOpen(eventSource)
        /\ eventSource # last'.s) =>
          /\ eventSource' = eventSource
          /\ sstate'[eventSource] = "open"
          /\ suggestionCallbacks'[sthread[eventSource]] =
                suggestionCallbacks[sthread[eventSource]]]_vars


\* C24: an exception thrown by the registered callback does not prevent
\* teardown: when the event is final and comes from the current stream, the
\* handler still closes the stream and the manager is IDLE.  The call of the
\* callback and the test of data.final share one try block, so the throw
\* skips the test.
C24_ThrowingCallbackStillTearsDown ==
    [][(/\ last'.op = "message"
        /\ last'.threw
        /\ DataFinal(last'.p)
        /\ eventSource = last'.s) =>
          /\ sstate'[last'.s] = "closed"
          /\ eventSource' = NoStream
          /\ suggestionCallbacks' = NoCallbacks]_vars


\* C25: the frontend and the mobile manager are trace-equivalent: given the
\* same calls, creation outcomes, notifications and expiries, every input
\* makes both open and close the same streams and invoke the same callbacks,
\* in the same order.  After a failed start mobile's catch runs one microtask
\* later than the frontend's, behind the continuation of a start made in the
\* same task, and closes the stream that start installed.
C25_FrontendMobileEquivalent == pairOps.fe = pairOps.mo


\* C26: in ChatInterface at most one delayed start is pending at any time, and
\* a delayed start that was still pending when a later one was scheduled
\* never reaches chatService.startSuggestionStream.
C26_OneDelayedStart ==
    /\ Cardinality(ArmedHandles(dtimers)) <= 1
    /\ \A h \in Handles : dtimers[h].st \in {"armed", "fired"} => ~dtimers[h].sup

\* two replies came within 500 ms of each other; the start of the first was
\* cleared and the start of the second has run, for the second message
C26_Witness ==
    \E h \in Handles :
        /\ dtimers[h].st = "cleared"
        /\ h + 1 \in Handles
        /\ dtimers[h + 1].st = "fired"
        /\ clast.op = "start"


\* the same sessions with the same messages, but for the suggestions
SameShape(a, b) ==
    /\ Len(a) = Len(b)
    /\ \A i \in 1 .. Len(a) :
          /\ a[i].id = b[i].id
          /\ Len(a[i].messages) = Len(b[i].messages)
          /\ \A j \in 1 .. Len(a[i].messages) : a[i].messages[j].id = b[i].messages[j].id

\* the messages (session index, message index) whose suggestions differ
\* between the session lists a and b of the same shape
ChangedIn(a, b) ==
    {c \in (1 .. Len(a)) \X (1 .. MaxMessages) :
        /\ c[2] <= Len(a[c[1]].messages)
        /\ b[c[1]].messages[c[2]].sug # a[c[1]].messages[c[2]].sug}

HasMessage(session, id) ==
    \E j \in 1 .. Len(session.messages) : session.messages[j].id = id

\* C27: an event of the stream writes suggestions only to messages of the
\* current session that have the message id given when the stream was asked
\* for; when the current session has no message with that id, no message of
\* any session is changed.
C27_SuggestionsOnlyToGivenMessage ==
    [][clast'.op = "event" =>
          /\ SameShape(sessions, sessions')
          /\ SameShape(<<currentSession>>, <<currentSession'>>)
          /\ \A c \in ChangedIn(sessions, sessions') :
                /\ sessions[c[1]].id = currentSession.id
                /\ sessions[c[1]].messages[c[2]].id = activeCb
          /\ \A j \in 1 .. Len(currentSession.messages) :
                currentSession'.messages[j].sug # currentSession.messages[j].sug
                   => currentSession.messages[j].id = activeCb
          /\ ~HasMessage(currentSession, activeCb) =>
                UNCHANGED <<sessions, currentSession, threadId>>]_vars

\* a stream asked for a message of another session has passed on suggestions:
\* the current session has no message with that id, the other session's
\* message has no suggestions
C27_Witness ==
    /\ clast.op = "event" /\ clast.kind = "react" /\ clast.has
    /\ activeCb # 0
    /\ currentSession # NoSession
    /\ ~HasMessage(currentSession, activeCb)
    /\ \E i \in 1 .. Len(sessions) :
          /\ sessions[i].id # currentSession.id
          /\ HasMessage(sessions[i], activeCb)
          /\ \A j \in 1 .. Len(sessions[i].messages) : sessions[i].messages[j].sug = 0

\* C28: the stream callback of the web ChatInterface changes the store only
\* for events of kind 'react' that carry suggestions; an event of kind
\* 'react_start', 'error' or 'suggest', or without a kind, leaves the
\* sessions, the current session and the thread id as they were.
C28_OnlyReactEventsWrite ==
    [][clast'.op = "event" /\ ~(clast'.kind = "react" /\ clast'.has) =>
          UNCHANGED <<sessions, currentSession, threadId>>]_vars

\* an event of another kind came with suggestions for a message of the
\* current session, which still has none
C28_Witness ==
    /\ clast.op = "event" /\ clast.kind \in {"suggest", "none"} /\ clast.has
    /\ activeCb # 0
    /\ \E j \in 1 .. Len(currentSession.messages) :
          /\ currentSession.messages[j].id = activeCb
          /\ currentSession.messages[j].sug = 0

\* the session ids of ss are pairwise distinct, and a non-null current session
\* cur has an entry in ss with its id and its messages
SessionsConsistent(ss, cur) ==
    /\ \A i, j \in 1 .. Len(ss) : ss[i].id = ss[j].id => i = j
    /\ cur # NoSession =>
          \E i \in 1 .. Len(ss) : ss[i].id = cur.id /\ ss[i].messages = cur.messages

\* C29: after every store action the session ids in `sessions` are pairwise
\* distinct and a non-null currentSession has an entry in `sessions` with the
\* same id and the same messages; addMessage and updateMessage called while
\* currentSession is null change nothing.
C29_StoreConsistent ==
    [][/\ SessionsConsistent(sessions', currentSession')
       /\ clast'.op \in {"add", "update"} /\ currentSession = NoSession =>
             UNCHANGED <<sessions, currentSession, threadId>>]_vars

\* a message was added to the current session while another session exists
C29_Witness ==
    /\ clast.op = "add"
    /\ Len(sessions) >= 2
    /\ currentSession # NoSession
    /\ currentSession.messages # <<>>

\* ss without its k-th entry
Without(ss, k) == [i \in 1 .. Len(ss) - 1 |-> IF i < k THEN ss[i] ELSE ss[i + 1]]

====
